---- MODULE Spec2Model ----
(***************************************************************************)
(* A model of the WOPI bridge (wopibridge.py) and of its CodiMD adapter    *)
(* (codimd.py): the open-files registry, the save-response map, the save   *)
(* thread (SaveThread.run and its three phases) and the /open, /save and   *)
(* /list handlers, running against a WOPI storage and a CodiMD server.     *)
(*                                                                         *)
(* Granularity.  The Flask handlers run in their own threads.  A handler   *)
(* step ends at each outbound HTTP call and at each entry of the savecv    *)
(* mutex.  The save thread holds savecv from the return of wait() to the   *)
(* next wait(); each of its phases (savedirty, closewhenidle, cleanup) for *)
(* one document is one step.  Steps of handlers that do not take savecv    *)
(* interleave between these phases.                                        *)
(*                                                                         *)
(* Time.  now is the clock in whole seconds.  time.time() is a float read  *)
(* strictly later than any int(time.time()) stored before, so              *)
(*   x < time.time() - k       is   x <= now - k      (FloatBefore)        *)
(*   x < int(time.time()) - k  is   x <  now - k      (IntBefore)          *)
(* for integers x and k.                                                   *)
(***************************************************************************)
EXTENDS Integers, Sequences, FiniteSets, TLC

(* ------------------------------ bounds --------------------------------- *)
\* the clock is observed MaxTicks times, Tick seconds apart
MaxTicks == 2

Ticks == {100}

\* the documents (wopisrc), access tokens and contents the requests draw from.
\* A token is <<head, tail>>, tail being its last 20 characters.
Docs == {"W1", "W2"}

\* the documents that the requests and the storage events of Spec are about
Served == {"W1"}

Tokens == {<<"u1", "s1">>, <<"u2", "s2">>}

Contents == {"c0", "c1"}

\* values APP_SAVE_INTERVAL and APP_UNLOCK_INTERVAL take when they are set
EnvIntervals == {50}

\* a save interval so short that a record is idle (4 x saveinterval) after one
\* tick of the clock
ShortIntervals == {20}

(* ---------------------------- Python dicts ----------------------------- *)
EmptyDict == [k \in {} |-> TRUE]

\* dict[k] = v
Put(dict, k, v) == [x \in DOMAIN dict \cup {k} |-> IF x = k THEN v ELSE dict[x]]

\* del dict[k]
Del(dict, k) == [x \in DOMAIN dict \ {k} |-> dict[x]]

(* ----------------------- wopibridge.py helpers ------------------------- *)
\* acctok[-20:]
ShortTok(acctok) == acctok[2]

\* _gendocid: a keyed hash of the last path segment of wopisrc
GenDocId(wopisrc) == IF wopisrc = "W1" THEN "n1" ELSE "n2"

\* the docid values a /save request may carry in its id argument
DocIds == {GenDocId(d) : d \in Served}

\* hashlib.sha1(mddoc).hexdigest()
Sha1(mddoc) == IF mddoc = "c0" THEN "da39" ELSE IF mddoc = "c1" THEN "7b52" ELSE "e3b0"

\* BRIDGE_EXT_PLUGINS.get(tag)
BridgeExtPlugins(tag) ==
    CASE tag \in {"md", "zmd", "mds"} -> "codimd"
      [] tag = "epd" -> "etherpad"
      [] OTHER -> "None"

\* the plugins that init has imported: WB.plugins[p] is None for the others
\* (there is no module etherpad)
LoadedPlugins == {"codimd"}

\* functools.reduce over an empty list raises TypeError
ReduceRaises(boolsd) == DOMAIN boolsd = {}

\* _intersection
Intersection(boolsd) == \A t \in DOMAIN boolsd : boolsd[t]

\* _union
Union(boolsd) == \E t \in DOMAIN boolsd : boolsd[t]

FloatBefore(x, k, t) == x <= t - k

IntBefore(x, k, t) == x < t - k

InvalidLockSentinel == [t \in {"invalid-lock"} |-> TRUE]

(* ------------------------------ responses ------------------------------ *)
Accepted == <<"{}", 202>>

SavedOk == <<"File saved successfully", 200>>

FetchFailed == <<"Could not save file, failed to fetch document from CodiMD", 500>>

PutFileFailed == <<"Error saving the file", 500>>

RelockFailed == <<"Failed to relock the file", 500>>

UnrecognizedApp == <<"Unrecognized app for this file", 400>>

(* ------------------- the WOPI storage and wopiclient ------------------- *)
\* what the storage holds as the lock of a file: nothing, a lock that is not
\* one of this bridge's (getlock raises InvalidLock with a reason other than
\* 404), or a bridge lock [docid, filename, digest, app, toclose]
NoLock == [kind |-> "nolock"]

ForeignLock == [kind |-> "foreign"]

IsBridgeLock(l) == "toclose" \in DOMAIN l

\* Python's None for a local wopilock
None == [kind |-> "None"]

\* wopi.generatelock
GenerateLock(docid, filename, digest, app, acctok, isclose) ==
    [docid |-> docid, filename |-> filename, digest |-> digest, app |-> app,
     toclose |-> [t \in {ShortTok(acctok)} |-> isclose]]

\* wopi.refreshlock: the lock with the token added to toclose, or with the
\* given toclose and digest
RefreshedLock(wopilock, acctok, digest, toclose) ==
    LET tc == IF toclose # None THEN toclose
              ELSE IF ShortTok(acctok) \in DOMAIN wopilock.toclose THEN wopilock.toclose
              ELSE [t \in DOMAIN wopilock.toclose \cup {ShortTok(acctok)} |->
                      IF t \in DOMAIN wopilock.toclose THEN wopilock.toclose[t] ELSE FALSE]
        dg == IF digest # "None" THEN digest ELSE wopilock.digest
    IN  [wopilock EXCEPT !.toclose = tc, !.digest = dg]

\* what the storage holds after REFRESH_LOCK: the new lock when it held a
\* bridge lock, and what it held otherwise
StoredAfterRefresh(held, newlock) == IF IsBridgeLock(held) THEN newlock ELSE held

VARIABLES
    environ,        \* os.environ: the variables set among APP_SAVE_INTERVAL, APP_UNLOCK_INTERVAL
    wbattrs,        \* the attributes saveinterval and unlockinterval of WB that init has set
    active,         \* WB.active
    openfiles,      \* WB.openfiles: wopisrc -> record
    saveresponses,  \* WB.saveresponses: wopisrc -> response
    mutex,          \* the thread holding WB.savecv
    wake,           \* savecv.wait(60) may return: notified, or 60 s have passed
    now,            \* the clock (seconds)
    lock,           \* storage: wopisrc -> lock held on the file
    file,           \* storage: wopisrc -> content of the file
    appdoc,         \* CodiMD: wopisrc -> content of the note of the document
    cpc,            \* SaveThread: position in run()
    todo,           \* SaveThread: rest of list(WB.openfiles.items())
    cwopilock,      \* SaveThread: the local wopilock of run()
    cdetached,      \* SaveThread: the openfile it holds once deleted from WB.openfiles
    opc,            \* appopen: position
    oreq,           \* appopen: wopisrc, acctok, UserCanWrite and wopilock
    spc,            \* appsave: position
    sreq,           \* appsave: wopisrc, isclose, donotify, and then the response
    closed,         \* history: wopisrc -> the short tokens for which /save came with
                    \* close=true since the record of wopisrc was created
    flushed         \* history: wopisrc -> the last call of savetostorage, where
                    \* that history is kept

vars == <<environ, wbattrs, active, openfiles, saveresponses,
          mutex, wake, now, lock, file, appdoc, cpc, todo, cwopilock, cdetached,
          opc, oreq, spc, sreq, closed, flushed>>

confVars == <<environ, wbattrs>>

storageVars == <<lock, file>>

coordVars == <<cpc, todo, cwopilock, cdetached>>

openVars == <<opc, oreq>>

saveVars == <<spc, sreq>>

NoReq == [wopisrc |-> "None"]

(* ------------------------------ WB.init -------------------------------- *)
\* the sets of variables the environment may hold
Environs ==
    UNION {[names -> EnvIntervals] : names \in SUBSET {"APP_SAVE_INTERVAL", "APP_UNLOCK_INTERVAL"}}

\* init, lines 96-103: int(None) raises TypeError.  The parsed
\* APP_UNLOCK_INTERVAL is assigned to saveinterval (line 101), and then
\* unlockinterval is not set.
InitIntervals(env) ==
    LET first == IF "APP_SAVE_INTERVAL" \in DOMAIN env
                 THEN env["APP_SAVE_INTERVAL"] ELSE 200
    IN  IF "APP_UNLOCK_INTERVAL" \in DOMAIN env
        THEN [a \in {"saveinterval"} |-> env["APP_UNLOCK_INTERVAL"]]
        ELSE [a \in {"saveinterval", "unlockinterval"} |->
                IF a = "saveinterval" THEN first ELSE 90]

\* WB.saveinterval
saveinterval == wbattrs["saveinterval"]

\* WB.unlockinterval; reading it raises AttributeError when init has not set it
HasUnlockInterval == "unlockinterval" \in DOMAIN wbattrs

unlockinterval == wbattrs["unlockinterval"]

\* no call of savetostorage yet, and no history of the calls
Never == [called |-> "never", at |-> 0, isclose |-> FALSE, again |-> FALSE, removed |-> FALSE]

NotKept == [d \in Docs |-> [Never EXCEPT !.called = "not kept"]]

\* the state after WB.init and the start of SaveThread, in a given environment
Started ==
    /\ wbattrs = InitIntervals(environ)
    /\ active = TRUE
    /\ openfiles = EmptyDict
    /\ saveresponses = EmptyDict
    /\ mutex = "free"
    /\ wake = FALSE
    /\ now = 0
    /\ lock = [d \in Docs |-> NoLock]
    /\ file = [d \in Docs |-> "c0"]
    /\ appdoc = [d \in Docs |-> "none"]
    /\ cpc = "wait"
    /\ todo = << >>
    /\ cwopilock = None
    /\ cdetached = None
    /\ opc = "idle"
    /\ oreq = NoReq
    /\ spc = "idle"
    /\ sreq = NoReq
    /\ closed = [d \in Docs |-> {}]

Constructed ==
    /\ environ \in Environs
    /\ Started

\* the history of the calls of savetostorage is not kept
Init ==
    /\ Constructed
    /\ flushed = NotKept


(* ------------------------- codimd.savetostorage ------------------------ *)
\* The files of the model are plain markdown without attachments
\* (wasbundle is false and _getattachments returns no bundle), so that the
\* save is the in-place PutFile of lines 245-258.
\* held, content: the storage's lock and file; mddoc: the note in CodiMD;
\* fetchok, putok: whether CodiMD and the storage answer the requests.
\* The result: the response, and the storage's lock and file afterwards.
\* a variant of lines 230-237 that skips the save on close whatever the digest
SaveToStorageSkipsOnClose(acctok, isclose, wopilock, held, content, mddoc, fetchok, putok) ==
    IF ~fetchok \/ mddoc = "none"
    THEN [resp |-> FetchFailed, lock |-> held, file |-> content]
    ELSE IF isclose /\ wopilock.digest # "dirty"
    THEN [resp |-> Accepted, lock |-> held, file |-> content]
    ELSE IF ~putok \/ held # wopilock
    THEN [resp |-> PutFileFailed, lock |-> held, file |-> content]
    ELSE [resp |-> SavedOk,
          lock |-> StoredAfterRefresh(held,
                     RefreshedLock(wopilock, acctok,
                                   IF isclose THEN Sha1(mddoc) ELSE "dirty", None)),
          file |-> mddoc]

SaveToStorage(acctok, isclose, wopilock, held, content, mddoc, fetchok, putok) ==
    IF ~fetchok \/ mddoc = "none"
    THEN [resp |-> FetchFailed, lock |-> held, file |-> content]
    ELSE IF isclose /\ wopilock.digest # "dirty" /\ Sha1(mddoc) = wopilock.digest
    THEN [resp |-> Accepted, lock |-> held, file |-> content]
    ELSE IF ~putok \/ held # wopilock
    THEN [resp |-> PutFileFailed, lock |-> held, file |-> content]
    ELSE [resp |-> SavedOk,
          lock |-> StoredAfterRefresh(held,
                     RefreshedLock(wopilock, acctok,
                                   IF isclose THEN Sha1(mddoc) ELSE "dirty", None)),
          file |-> mddoc]

(* ------------------------------ SaveThread ----------------------------- *)
\* the document of the current iteration of the for loop of run()
Cur == Head(todo)

\* the history of the close signals, once the records that are not in the
\* registry any more are forgotten
Forgotten(files) == [d \in Docs |-> IF d \in DOMAIN files THEN closed[d] ELSE {}]

\* the history of the calls of savetostorage, once the record that was saved
\* is marked as removed when it is not in the registry any more
Remembered(files) ==
    IF flushed = NotKept THEN flushed
    ELSE [d \in Docs |-> IF d \in DOMAIN files \/ flushed[d] = Never THEN flushed[d]
                         ELSE [flushed[d] EXCEPT !.removed = TRUE]]

\* the history of the calls of savetostorage after the call for document d
Noted(d, isclose) ==
    IF flushed = NotKept THEN flushed
    ELSE [flushed EXCEPT ![d] = [called |-> "yes", at |-> now, isclose |-> isclose,
                                 again |-> (@.called = "yes" /\ ~@.removed),
                                 removed |-> FALSE]]

\* the end of an iteration of the for loop: the next document, or the end of
\* the with block and wait()
NextDoc ==
    /\ todo' = Tail(todo)
    /\ cwopilock' = None
    /\ cdetached' = None
    /\ IF Tail(todo) = << >>
       THEN cpc' = "wait" /\ mutex' = "free" /\ wake' = FALSE
       ELSE cpc' = "savedirty" /\ UNCHANGED <<mutex, wake>>

\* a variant of lines 363-370 with the try statement around the for loop
CaughtOutsideLoop ==
    /\ todo' = << >>
    /\ cwopilock' = None
    /\ cdetached' = None
    /\ cpc' = "wait" /\ mutex' = "free" /\ wake' = FALSE

\* lines 367-370: the except clause is in the for loop, the exception ends the
\* iteration
Caught == NextDoc

\* a variant of line 362 in which a document may come twice
OrdersWithRepeats(S) == [1..Cardinality(S) -> S]

\* the orders list(WB.openfiles.items()) may have
Orders(S) ==
    {s \in [1..Cardinality(S) -> S] : \A i, j \in 1..Cardinality(S) : i # j => s[i] # s[j]}

\* a variant of line 359 that does not look at WB.active
NeverBreaks == FALSE

\* line 359
ShouldBreak == ~active

\* run(), lines 356-362: wait() returns, the thread holds savecv
CoordWake ==
    /\ cpc = "wait"
    /\ wake
    /\ mutex = "free"
    /\ IF ShouldBreak
       THEN /\ cpc' = "terminated"
            /\ UNCHANGED <<todo, mutex, wake>>
       ELSE \E order \in Orders(DOMAIN openfiles) :
              /\ todo' = order
              /\ IF order = << >>
                 THEN cpc' = "wait" /\ wake' = FALSE /\ UNCHANGED mutex
                 ELSE cpc' = "savedirty" /\ mutex' = "SaveThread" /\ UNCHANGED wake
    /\ UNCHANGED <<confVars, active, openfiles, saveresponses, now, storageVars, appdoc,
                   cwopilock, cdetached, openVars, saveVars, closed, flushed>>

\* wopi.relock: the lock it takes when the file is not locked
Relock(wopisrc, acctok, docid, isclose) ==
    GenerateLock(docid, "doc.md", "dirty", "md", acctok, isclose)

\* a variant of lines 391-393 that leaves the record dirty
TaggedInvalidKeptDirty(openfile, t) ==
    [openfile EXCEPT !.lastsave = t, !.toclose = InvalidLockSentinel]

\* lines 391-393
TaggedInvalid(openfile, t) ==
    [openfile EXCEPT !.lastsave = t, !.tosave = FALSE, !.toclose = InvalidLockSentinel]

\* a variant of lines 404-405 that leaves lastsave as it is
FlushedUndated(openfile, t) == [openfile EXCEPT !.tosave = FALSE]

\* lines 404-405
Flushed(openfile, t) == [openfile EXCEPT !.lastsave = t, !.tosave = FALSE]

\* a variant of lines 376-377 that saves whatever is dirty
IsDirty(openfile) == openfile.tosave

\* the condition of line 376-377, when it does not raise
IsDue(openfile) ==
    openfile.tosave /\ (Intersection(openfile.toclose)
                        \/ FloatBefore(openfile.lastsave, saveinterval, now))

\* savedirty, lines 373-406
SaveDirty ==
    /\ cpc = "savedirty"
    /\ LET openfile == openfiles[Cur]
           held == lock[Cur]
       IN
       IF openfile.tosave /\ ReduceRaises(openfile.toclose)
       THEN /\ Caught
            /\ UNCHANGED <<openfiles, saveresponses, storageVars, flushed>>
       ELSE IF ~IsDue(openfile)
       THEN /\ cpc' = "closewhenidle"
            /\ UNCHANGED <<openfiles, saveresponses, storageVars, todo, cwopilock,
                           cdetached, mutex, wake, flushed>>
       ELSE IF ~IsBridgeLock(held) /\ held # NoLock
       THEN \* getlock and relock both raise InvalidLock, lines 386-394
            /\ saveresponses' = Put(saveresponses, Cur, RelockFailed)
            /\ openfiles' = [openfiles EXCEPT ![Cur] = TaggedInvalid(openfile, now)]
            /\ cpc' = "closewhenidle"
            /\ UNCHANGED <<storageVars, todo, cwopilock, cdetached, mutex, wake, flushed>>
       ELSE LET wopilock == IF IsBridgeLock(held) THEN held
                            ELSE Relock(Cur, openfile.acctok, openfile.docid,
                                        Intersection(openfile.toclose))
            IN
            IF BridgeExtPlugins(wopilock.app) \notin LoadedPlugins \cup {"None"}
            THEN \* line 402: None has no attribute savetostorage
                 /\ Caught
                 /\ UNCHANGED <<openfiles, saveresponses, storageVars, flushed>>
            ELSE IF BridgeExtPlugins(wopilock.app) = "None"
            THEN /\ saveresponses' = Put(saveresponses, Cur, UnrecognizedApp)
                 /\ lock' = [lock EXCEPT ![Cur] = wopilock]
                 /\ cwopilock' = wopilock
                 /\ cpc' = "closewhenidle"
                 /\ UNCHANGED <<openfiles, file, todo, cdetached, mutex, wake, flushed>>
            ELSE \E fetchok, putok \in BOOLEAN :
                   LET r == SaveToStorage(openfile.acctok, Intersection(openfile.toclose),
                                          wopilock, wopilock, file[Cur], appdoc[Cur],
                                          fetchok, putok)
                   IN /\ saveresponses' = Put(saveresponses, Cur, r.resp)
                      /\ lock' = [lock EXCEPT ![Cur] = r.lock]
                      /\ file' = [file EXCEPT ![Cur] = r.file]
                      /\ openfiles' = [openfiles EXCEPT ![Cur] = Flushed(openfile, now)]
                      /\ flushed' = Noted(Cur, Intersection(openfile.toclose))
                      /\ cwopilock' = wopilock
                      /\ cpc' = "closewhenidle"
                      /\ UNCHANGED <<todo, cdetached, mutex, wake>>
    /\ UNCHANGED <<confVars, active, now, appdoc, openVars, saveVars, closed>>

\* line 416
ForceClosed(openfile) ==
    [openfile EXCEPT !.toclose = [t \in DOMAIN openfile.toclose |-> TRUE]]

\* closewhenidle, lines 408-423
CloseWhenIdle ==
    /\ cpc = "closewhenidle"
    /\ LET openfile == openfiles[Cur]
       IN
       IF ~IntBefore(openfile.lastsave, 4 * saveinterval, now)
       THEN UNCHANGED <<openfiles, cwopilock, cdetached>>
       ELSE IF cwopilock # None \/ IsBridgeLock(lock[Cur])
       THEN /\ cwopilock' = IF cwopilock # None THEN cwopilock ELSE lock[Cur]
            /\ openfiles' = [openfiles EXCEPT ![Cur] = ForceClosed(openfile)]
            /\ UNCHANGED cdetached
       ELSE \* getlock raises InvalidLock, lines 419-422
            /\ openfiles' = Del(openfiles, Cur)
            /\ cdetached' = openfile
            /\ UNCHANGED cwopilock
    /\ cpc' = "cleanup"
    /\ closed' = Forgotten(openfiles')
    /\ flushed' = Remembered(openfiles')
    /\ UNCHANGED <<confVars, active, saveresponses, mutex, wake, now, storageVars, appdoc,
                   todo, openVars, saveVars>>

\* a variant of line 440 in which the record decides for the keys it holds
ReconciledByRecord(toclose, locktoclose) ==
    [t \in DOMAIN locktoclose |-> IF t \in DOMAIN toclose THEN toclose[t] ELSE locktoclose[t]]

\* a variant of line 440 that keeps the tokens both close maps have
ReconciledCommon(toclose, locktoclose) ==
    [t \in DOMAIN locktoclose \cap DOMAIN toclose |-> locktoclose[t] \/ toclose[t]]

\* line 440
Reconciled(toclose, locktoclose) ==
    [t \in DOMAIN locktoclose |-> locktoclose[t] \/ (t \in DOMAIN toclose /\ toclose[t])]

\* the storage's answer to UNLOCK with the given lock, when it answers
UnlockAccepted(held, wopilock) == held = wopilock

\* the openfile cleanup holds: the registry's record, or the one closewhenidle
\* deleted from the registry
OpenFile == IF cdetached # None THEN cdetached ELSE openfiles[Cur]

\* the registry after an assignment to a field of openfile
Assigned(newfile) ==
    IF cdetached # None THEN openfiles ELSE [openfiles EXCEPT ![Cur] = newfile]

\* the condition of line 427, when it does not raise
IsClosing(openfile) == Union(openfile.toclose) /\ ~openfile.tosave

\* the conditions of lines 433 and 443
GraceOverFloat(openfile) == FloatBefore(openfile.lastsave, unlockinterval, now)

\* a variant of line 443 without the grace period
GraceIgnored(openfile) == TRUE

GraceOverInt(openfile) == IntBefore(openfile.lastsave, unlockinterval, now)

\* cleanup raises: TypeError of reduce() at lines 427 and 442, AttributeError
\* of WB.unlockinterval at lines 433 and 443, KeyError of del at line 436 when
\* closewhenidle has deleted the record
CleanUpRaises(openfile, wopilock) ==
    IF ReduceRaises(openfile.toclose) THEN TRUE
    ELSE IF ~IsClosing(openfile) THEN FALSE
    ELSE IF ~IsBridgeLock(wopilock)
    THEN \/ ~HasUnlockInterval
         \/ GraceOverFloat(openfile) /\ Cur \notin DOMAIN openfiles
    ELSE LET toclose == Reconciled(openfile.toclose, wopilock.toclose)
         IN IF ReduceRaises(toclose) THEN TRUE
            ELSE Intersection(toclose) /\ ~HasUnlockInterval

\* cleanup, lines 425-456.  Every way out of it, the exceptions that the
\* except clause of run() catches included, ends the iteration.
\* del WB.openfiles[wopisrc] raises KeyError when closewhenidle has deleted
\* the record.
CleanUp ==
    /\ cpc = "cleanup"
    /\ IF CleanUpRaises(OpenFile, IF cwopilock # None THEN cwopilock ELSE lock[Cur])
       THEN Caught ELSE NextDoc
    /\ LET openfile == OpenFile
           held == lock[Cur]
           wopilock == IF cwopilock # None THEN cwopilock ELSE held
       IN
       IF ReduceRaises(openfile.toclose)
       THEN UNCHANGED <<openfiles, lock>>
       ELSE IF ~IsClosing(openfile)
       THEN UNCHANGED <<openfiles, lock>>
       ELSE IF ~IsBridgeLock(wopilock)
       THEN \* getlock raises InvalidLock, lines 431-437
            /\ openfiles' = IF HasUnlockInterval /\ GraceOverFloat(openfile)
                            THEN Del(openfiles, Cur) ELSE openfiles
            /\ UNCHANGED lock
       ELSE LET toclose == Reconciled(openfile.toclose, wopilock.toclose)
                newfile == [openfile EXCEPT !.toclose = toclose]
            IN
            IF ReduceRaises(toclose) \/ (Intersection(toclose) /\ ~HasUnlockInterval)
            THEN openfiles' = Assigned(newfile) /\ UNCHANGED lock
            ELSE IF Intersection(toclose)
            THEN IF GraceOverInt(openfile)
                 THEN /\ \E answered \in BOOLEAN :
                           lock' = IF answered /\ UnlockAccepted(held, wopilock)
                                   THEN [lock EXCEPT ![Cur] = NoLock] ELSE lock
                      /\ openfiles' = Del(openfiles, Cur)
                 ELSE openfiles' = Assigned(newfile) /\ UNCHANGED lock
            ELSE /\ openfiles' = Assigned(newfile)
                 /\ lock' = IF toclose # wopilock.toclose
                            THEN [lock EXCEPT ![Cur] = StoredAfterRefresh(held,
                                    RefreshedLock(wopilock, openfile.acctok, "None", toclose))]
                            ELSE lock
    /\ closed' = Forgotten(openfiles')
    /\ flushed' = Remembered(openfiles')
    /\ UNCHANGED <<confVars, active, saveresponses, now, file, appdoc, openVars, saveVars>>

(* ------------------------------- appopen ------------------------------- *)
\* lines 206-233: GetFileInfo answers with UserCanWrite and a supported
\* file name, then getlock
OpenGetLock(wopisrc, acctok) ==
    /\ opc = "idle"
    /\ spc = "idle"
    /\ active
    /\ LET held == lock[wopisrc]
       IN IF IsBridgeLock(held)
          THEN /\ oreq' = [wopisrc |-> wopisrc, acctok |-> acctok, UserCanWrite |-> TRUE,
                           wopilock |-> held]
               /\ opc' = IF ShortTok(acctok) \notin DOMAIN held.toclose
                         THEN "refreshlock" ELSE "upsert"
          ELSE \* InvalidLock: its reason is 404 when the file has no lock
               /\ oreq' = [wopisrc |-> wopisrc, acctok |-> acctok,
                           UserCanWrite |-> (held = NoLock), wopilock |-> None]
               /\ opc' = "loadfromstorage"
    /\ UNCHANGED <<confVars, active, openfiles, saveresponses, mutex, wake, now,
                   storageVars, appdoc, coordVars, saveVars, closed, flushed>>

\* line 227
OpenRefreshLock ==
    /\ opc = "refreshlock"
    /\ LET newlock == RefreshedLock(oreq.wopilock, oreq.acctok, "None", None)
       IN /\ lock' = [lock EXCEPT ![oreq.wopisrc] = StoredAfterRefresh(@, newlock)]
          /\ oreq' = [oreq EXCEPT !.wopilock = newlock]
    /\ opc' = "upsert"
    /\ UNCHANGED <<confVars, active, openfiles, saveresponses, mutex, wake, now,
                   file, appdoc, coordVars, saveVars, closed, flushed>>

\* codimd.loadfromstorage, lines 125-190, with a docid: the lock it returns
LoadFromStorage(wopisrc, acctok, mdfile) ==
    GenerateLock(GenDocId(wopisrc), "doc.md", Sha1(mdfile), "md", acctok, FALSE)

\* lines 235-243: loadfromstorage, then WOPI Lock.  pushed: CodiMD takes the
\* document (200), refuses it as it is being edited (403), or fails.
OpenLoadAndLock ==
    /\ opc = "loadfromstorage"
    /\ \E pushed \in {"OK", "AppFailure"} \cup
                     (IF appdoc[oreq.wopisrc] # "none" THEN {"FORBIDDEN"} ELSE {}) :
         LET wopisrc == oreq.wopisrc
             wopilock == LoadFromStorage(wopisrc, oreq.acctok, file[wopisrc])
         IN IF pushed = "AppFailure"
            THEN \* line 264-266
                 /\ opc' = "idle"
                 /\ oreq' = NoReq
                 /\ UNCHANGED <<lock, appdoc>>
            ELSE /\ appdoc' = IF pushed = "OK"
                              THEN [appdoc EXCEPT ![wopisrc] = file[wopisrc]] ELSE appdoc
                 /\ lock' = IF lock[wopisrc] = NoLock
                            THEN [lock EXCEPT ![wopisrc] = wopilock] ELSE lock
                 /\ oreq' = [oreq EXCEPT !.wopilock = wopilock,
                                         !.UserCanWrite = @ /\ lock[wopisrc] = NoLock]
                 /\ opc' = "upsert"
    /\ UNCHANGED <<confVars, active, openfiles, saveresponses, mutex, wake, now,
                   file, coordVars, saveVars, closed, flushed>>

\* a variant of lines 248-249 that stamps the record as a new one
JoinedAsNew(openfile, acctok, wopilock) ==
    [openfile EXCEPT !.acctok = acctok, !.toclose = wopilock.toclose,
                     !.lastsave = now - saveinterval]

\* a variant of lines 248-249 that also takes the document id of the lock and
\* clears the dirty flag, as lines 250-255 do for a new record
JoinedAfresh(openfile, acctok, wopilock) ==
    [openfile EXCEPT !.acctok = acctok, !.toclose = wopilock.toclose,
                     !.docid = wopilock.docid, !.tosave = FALSE]

\* a variant of lines 248-249 that keeps the close map of the record
JoinedKeepingMap(openfile, acctok, wopilock) ==
    [openfile EXCEPT !.acctok = acctok]

\* lines 248-249
Joined(openfile, acctok, wopilock) ==
    [openfile EXCEPT !.acctok = acctok, !.toclose = wopilock.toclose]

\* lines 251-255
Opened(acctok, wopilock, t) ==
    [acctok |-> acctok, tosave |-> FALSE, lastsave |-> t - saveinterval,
     toclose |-> [k \in {ShortTok(acctok)} |-> FALSE], docid |-> wopilock.docid]

\* lines 246-260: the registry and the save-response map are written
\* without savecv
OpenUpsert ==
    /\ opc = "upsert"
    /\ LET wopisrc == oreq.wopisrc
       IN /\ openfiles' = IF wopisrc \in DOMAIN openfiles
                          THEN [openfiles EXCEPT
                                  ![wopisrc] = Joined(@, oreq.acctok, oreq.wopilock)]
                          ELSE Put(openfiles, wopisrc, Opened(oreq.acctok, oreq.wopilock, now))
          /\ saveresponses' = Del(saveresponses, wopisrc)
    /\ opc' = "idle"
    /\ oreq' = NoReq
    /\ UNCHANGED <<confVars, active, mutex, wake, now, storageVars, appdoc, coordVars,
                   saveVars, closed, flushed>>

\* lines 261-263: without UserCanWrite the document is pushed to a note of
\* its own; the registry and the lock are left alone
OpenReadOnly(wopisrc, acctok) ==
    /\ opc = "idle"
    /\ spc = "idle"
    /\ active
    /\ UNCHANGED vars

(* ------------------------------- appsave ------------------------------- *)
\* line 296, read without savecv
DoNotify(wopisrc, isclose) ==
    \/ isclose
    \/ wopisrc \notin DOMAIN openfiles
    \/ FloatBefore(openfiles[wopisrc].lastsave, saveinterval, now)

\* lines 283-296: the metadata is well formed
SaveBegin(wopisrc, isclose) ==
    /\ spc = "idle"
    /\ opc = "idle"
    /\ active
    /\ sreq' = [wopisrc |-> wopisrc, isclose |-> isclose,
                donotify |-> DoNotify(wopisrc, isclose)]
    /\ spc' = "enqueue"
    /\ UNCHANGED <<confVars, active, openfiles, saveresponses, mutex, wake, now,
                   storageVars, appdoc, coordVars, openVars, closed, flushed>>

\* lines 300-301
Enqueued(openfile, acctok, isclose) ==
    [openfile EXCEPT !.tosave = TRUE,
                     !.toclose = Put(openfile.toclose, ShortTok(acctok), isclose)]

\* lines 304-308
Repopulated(acctok, isclose, docid, t) ==
    [acctok |-> acctok, tosave |-> TRUE, lastsave |-> t - saveinterval,
     toclose |-> [k \in {ShortTok(acctok)} |-> isclose], docid |-> docid]

\* lines 298-313: the registry and the save-response map after the enqueueing
EnqueuedFiles(wopisrc, acctok, isclose, docid) ==
    IF wopisrc \in DOMAIN openfiles
    THEN [openfiles EXCEPT ![wopisrc] = Enqueued(@, acctok, isclose)]
    ELSE Put(openfiles, wopisrc, Repopulated(acctok, isclose, docid, now))

EnqueuedResponses(wopisrc) ==
    IF wopisrc \in DOMAIN openfiles THEN saveresponses ELSE Del(saveresponses, wopisrc)

\* a variant of lines 318-324 that answers every /save alike
SaveResponseAccepted(responses, wopisrc) == Accepted

\* lines 318-324: the response of /save
SaveResponse(responses, wopisrc) ==
    IF wopisrc \in DOMAIN responses THEN responses[wopisrc] ELSE Accepted

\* a variant of line 320 that keeps the response it returns
ConsumedKept(responses, wopisrc) == responses

\* line 320
Consumed(responses, wopisrc) == Del(responses, wopisrc)

\* lines 298-324: savecv is taken, and held until the return statement has
\* its value.  The access token and the id argument are those of the request.
SaveEnqueue(acctok, docid) ==
    /\ spc = "enqueue"
    /\ mutex = "free"
    /\ LET wopisrc == sreq.wopisrc
           responses == EnqueuedResponses(wopisrc)
       IN /\ openfiles' = EnqueuedFiles(wopisrc, acctok, sreq.isclose, docid)
          /\ wake' = (wake \/ (sreq.donotify /\ cpc = "wait"))
          /\ sreq' = [wopisrc |-> wopisrc, resp |-> SaveResponse(responses, wopisrc)]
          /\ saveresponses' = Consumed(responses, wopisrc)
          /\ closed' = IF sreq.isclose
                       THEN [closed EXCEPT ![wopisrc] = @ \cup {ShortTok(acctok)}]
                       ELSE closed
    /\ mutex' = "appsave"
    /\ spc' = "return"
    /\ UNCHANGED <<confVars, active, now, storageVars, appdoc, coordVars, openVars, flushed>>

\* the with block is left and the response is sent
SaveReturn ==
    /\ spc = "return"
    /\ mutex' = "free"
    /\ spc' = "idle"
    /\ sreq' = NoReq
    /\ UNCHANGED <<confVars, active, openfiles, saveresponses, wake, now,
                   storageVars, appdoc, coordVars, openVars, closed, flushed>>

(* ------------------------------- applist ------------------------------- *)
\* lines 328-336: json.dumps(WB.openfiles), read without savecv
AppList ==
    /\ active
    /\ UNCHANGED vars

(* ---------------------------- stopsavethread --------------------------- *)
\* lines 459-465
StopSaveThread ==
    /\ active
    /\ mutex = "free"
    /\ active' = FALSE
    /\ wake' = (wake \/ cpc = "wait")
    /\ UNCHANGED <<confVars, openfiles, saveresponses, mutex, now, storageVars, appdoc,
                   coordVars, openVars, saveVars, closed, flushed>>

(* --------------------------- the environment --------------------------- *)
\* what may become of the lock of a file while the clock advances: it stays,
\* it is dropped (it expired, or another bridge unlocked the file), or another
\* application locks the file that is not locked
LockAfter(held, event) ==
    IF event = "drop" THEN NoLock
    ELSE IF event = "foreign" /\ held = NoLock THEN ForeignLock
    ELSE held

\* the clock advances, and a wait(60) that is under way times out; meanwhile
\* the locks of the files of S may change
Elapse(S) ==
    /\ active
    /\ \E t \in Ticks :
         /\ now + t <= MaxTicks * t
         /\ now' = now + t
    /\ wake' = (wake \/ cpc = "wait")
    /\ \E event \in [S -> {"keep", "drop", "foreign"}] :
         lock' = [d \in Docs |-> IF d \in S THEN LockAfter(lock[d], event[d]) ELSE lock[d]]
    /\ UNCHANGED <<confVars, active, openfiles, saveresponses, mutex, file, appdoc,
                   coordVars, openVars, saveVars, closed, flushed>>

Tick == Elapse(Served)

\* the clock advances and the locks stay as they are
TickQuiet == Elapse({})

\* The requests are served one at a time (OpenGetLock, SaveBegin); the save
\* thread, the clock and the storage run beside the request being served.
Next ==
    \/ CoordWake
    \/ SaveDirty
    \/ CloseWhenIdle
    \/ CleanUp
    \/ \E wopisrc \in Served, acctok \in Tokens : OpenGetLock(wopisrc, acctok)
    \/ \E wopisrc \in Served, acctok \in Tokens : OpenReadOnly(wopisrc, acctok)
    \/ OpenRefreshLock
    \/ OpenLoadAndLock
    \/ OpenUpsert
    \/ \E wopisrc \in Served, isclose \in BOOLEAN : SaveBegin(wopisrc, isclose)
    \/ \E acctok \in Tokens, docid \in DocIds : SaveEnqueue(acctok, docid)
    \/ SaveReturn
    \/ AppList
    \/ StopSaveThread
    \/ Tick

Spec == Init /\ [][Next]_vars

(* ------------- one document, saved and never opened, timed ------------- *)
\* the history of the calls of savetostorage is kept
InitTimed ==
    /\ Constructed
    /\ flushed = [d \in Docs |-> Never]

TimedNext ==
    \/ CoordWake
    \/ SaveDirty
    \/ CloseWhenIdle
    \/ CleanUp
    \/ \E wopisrc \in Served, isclose \in BOOLEAN : SaveBegin(wopisrc, isclose)
    \/ \E acctok \in Tokens, docid \in DocIds : SaveEnqueue(acctok, docid)
    \/ SaveReturn
    \/ StopSaveThread
    \/ Tick

SpecTimed == InitTimed /\ [][TimedNext]_vars

(* ------------------- one user who edits the document ------------------- *)
\* the user of the session
T1 == <<"u1", "s1">>

\* the user edits the note of document d in CodiMD: what _fetchfromcodimd
\* returns afterwards is another content
Edit(d) ==
    /\ active
    /\ appdoc[d] # "none"
    /\ \E content \in Contents \ {appdoc[d]} : appdoc' = [appdoc EXCEPT ![d] = content]
    /\ UNCHANGED <<confVars, active, openfiles, saveresponses, mutex, wake, now,
                   storageVars, coordVars, openVars, saveVars, closed, flushed>>

EditsNext ==
    \/ CoordWake
    \/ SaveDirty
    \/ CloseWhenIdle
    \/ CleanUp
    \/ \E wopisrc \in Served : OpenGetLock(wopisrc, T1)
    \/ \E wopisrc \in Served : OpenReadOnly(wopisrc, T1)
    \/ OpenLoadAndLock
    \/ OpenUpsert
    \/ \E wopisrc \in Served, isclose \in BOOLEAN : SaveBegin(wopisrc, isclose)
    \/ \E docid \in DocIds : SaveEnqueue(T1, docid)
    \/ SaveReturn
    \/ \E wopisrc \in Served : Edit(wopisrc)
    \/ StopSaveThread
    \/ Tick

SpecEdits == Init /\ [][EditsNext]_vars

(* ------ the session of one user: open, edit, save with close=true ------ *)
\* the document of the session
S1 == "W1"

\* /open, when nothing has happened yet
SessionOpen ==
    /\ lock[S1] = NoLock
    /\ S1 \notin DOMAIN openfiles
    /\ appdoc[S1] = "none"
    /\ flushed[S1] = Never
    /\ OpenGetLock(S1, T1)

\* CodiMD takes the document
SessionLoadAndLock ==
    /\ OpenLoadAndLock
    /\ opc' = "upsert"
    /\ appdoc'[S1] = file[S1]

\* the user edits the document that is open, once
SessionEdit ==
    /\ S1 \in DOMAIN openfiles
    /\ appdoc[S1] = file[S1]
    /\ closed[S1] = {}
    /\ spc = "idle"
    /\ flushed[S1] = Never
    /\ Edit(S1)

\* the one /save of the session, with close=true, for the edited document
SessionClose ==
    /\ S1 \in DOMAIN openfiles
    /\ appdoc[S1] # file[S1]
    /\ closed[S1] = {}
    /\ flushed[S1] = Never
    /\ SaveBegin(S1, TRUE)

\* CodiMD and the storage answer the requests of the save thread
SessionSaveDirty ==
    /\ SaveDirty
    /\ S1 \in DOMAIN saveresponses' => saveresponses'[S1] \in {SavedOk, Accepted}

\* the storage answers the Unlock of the save thread
SessionCleanUp ==
    /\ CleanUp
    /\ (/\ S1 \notin DOMAIN openfiles'
        /\ UnlockAccepted(lock[S1], IF cwopilock # None THEN cwopilock ELSE lock[S1]))
          => lock'[S1] = NoLock

\* wait(60) times out before the clock of the model advances
WaitTimesOut ==
    /\ active
    /\ cpc = "wait"
    /\ ~wake
    /\ wake' = TRUE
    /\ UNCHANGED <<confVars, active, openfiles, saveresponses, mutex, now, storageVars,
                   appdoc, coordVars, openVars, saveVars, closed, flushed>>

SessionNext ==
    \/ CoordWake
    \/ SessionSaveDirty
    \/ CloseWhenIdle
    \/ SessionCleanUp
    \/ SessionOpen
    \/ SessionLoadAndLock
    \/ OpenUpsert
    \/ SessionClose
    \/ SaveEnqueue(T1, GenDocId(S1))
    \/ SaveReturn
    \/ SessionEdit
    \/ WaitTimesOut
    \/ TickQuiet

\* the save thread and the handlers of the requests keep running
SpecSession ==
    /\ InitTimed
    /\ [][SessionNext]_vars
    /\ WF_vars(CoordWake) /\ WF_vars(SessionSaveDirty) /\ WF_vars(CloseWhenIdle)
    /\ WF_vars(SessionCleanUp) /\ WF_vars(SessionLoadAndLock) /\ WF_vars(OpenUpsert)
    /\ WF_vars(SaveEnqueue(T1, GenDocId(S1))) /\ WF_vars(SaveReturn)
    /\ WF_vars(WaitTimesOut)

(* ------------- a short save interval: records that are idle ------------ *)
\* APP_SAVE_INTERVAL is set to a short interval, APP_UNLOCK_INTERVAL is not set
ShortEnvirons == [{"APP_SAVE_INTERVAL"} -> ShortIntervals]

InitIdle ==
    /\ environ \in ShortEnvirons
    /\ Started
    /\ flushed = NotKept

SpecIdle == InitIdle /\ [][TimedNext]_vars

(* ---------- locks of other bridges, for other applications ------------ *)
\* the application tags of the locks of other bridges: an application whose
\* plugin is not loaded here, and one that BRIDGE_EXT_PLUGINS does not know
OtherApps == {"epd", "odt"}

\* another bridge opens the file that is not locked, and locks it
LockedElsewhere(d) ==
    /\ active
    /\ lock[d] = NoLock
    /\ \E app \in OtherApps :
         lock' = [lock EXCEPT ![d] = GenerateLock("n9", "doc." \o app, "dirty", app,
                                                  <<"u9", "s9">>, FALSE)]
    /\ UNCHANGED <<confVars, active, openfiles, saveresponses, mutex, wake, now, file,
                   appdoc, coordVars, openVars, saveVars, closed, flushed>>

AppsNext ==
    \/ CoordWake
    \/ SaveDirty
    \/ CloseWhenIdle
    \/ CleanUp
    \/ \E wopisrc \in Served, isclose \in BOOLEAN : SaveBegin(wopisrc, isclose)
    \/ \E docid \in DocIds : SaveEnqueue(T1, docid)
    \/ SaveReturn
    \/ \E wopisrc \in Served : LockedElsewhere(wopisrc)
    \/ Tick

SpecApps == InitIdle /\ [][AppsNext]_vars

(* -------------- /save requests that carry another note id -------------- *)
\* the values of the id argument of /save: the note of the document, and
\* another note of CodiMD
SentIds == DocIds \cup {"n7"}

IdsNext ==
    \/ CoordWake
    \/ SaveDirty
    \/ CloseWhenIdle
    \/ CleanUp
    \/ \E wopisrc \in Served, acctok \in Tokens : OpenGetLock(wopisrc, acctok)
    \/ OpenRefreshLock
    \/ OpenLoadAndLock
    \/ OpenUpsert
    \/ \E wopisrc \in Served, isclose \in BOOLEAN : SaveBegin(wopisrc, isclose)
    \/ \E docid \in SentIds : SaveEnqueue(T1, docid)
    \/ SaveReturn
    \/ Tick

SpecIds == InitIdle /\ [][IdsNext]_vars

(* ------------- the clock advances where the thread is held ------------- *)
\* The clock advances while the save thread is in wait() or in a request to
\* the storage or to CodiMD.  Between the return of savedirty with a lock and
\* the conditions of lines 411, 427 and 442 there is no such request
\* (closewhenidle and cleanup call getlock only when wopilock is None), and
\* no time passes.
TickAtCalls ==
    /\ cpc \in {"wait", "terminated", "savedirty"} \/ cwopilock = None
    /\ Tick

PromptNext ==
    \/ CoordWake
    \/ SaveDirty
    \/ CloseWhenIdle
    \/ CleanUp
    \/ \E wopisrc \in Served : OpenGetLock(wopisrc, T1)
    \/ OpenLoadAndLock
    \/ OpenUpsert
    \/ \E wopisrc \in Served, isclose \in BOOLEAN : SaveBegin(wopisrc, isclose)
    \/ \E docid \in DocIds : SaveEnqueue(T1, docid)
    \/ SaveReturn
    \/ TickAtCalls

SpecPrompt == InitTimed /\ [][PromptNext]_vars

(* ------------- line 296 of appsave, one operand at a time -------------- *)
\* line 296, isclose or wopisrc not in WB.openfiles: when either holds the
\* third operand is not evaluated
SaveTest(wopisrc, isclose) ==
    /\ spc = "idle"
    /\ opc = "idle"
    /\ active
    /\ IF isclose \/ wopisrc \notin DOMAIN openfiles
       THEN /\ sreq' = [wopisrc |-> wopisrc, isclose |-> isclose, donotify |-> TRUE]
            /\ spc' = "enqueue"
       ELSE /\ sreq' = [wopisrc |-> wopisrc, isclose |-> isclose, donotify |-> FALSE]
            /\ spc' = "lastsave"
    /\ UNCHANGED <<confVars, active, openfiles, saveresponses, mutex, wake, now,
                   storageVars, appdoc, coordVars, openVars, closed, flushed>>

\* line 296, WB.openfiles[wopisrc]['lastsave'] < time.time() - WB.saveinterval:
\* the subscription raises KeyError when the record is not there any more,
\* and the request is answered with an internal server error
SaveReadLastSave ==
    /\ spc = "lastsave"
    /\ IF sreq.wopisrc \in DOMAIN openfiles
       THEN /\ sreq' = [sreq EXCEPT !.donotify =
                           FloatBefore(openfiles[sreq.wopisrc].lastsave, saveinterval, now)]
            /\ spc' = "enqueue"
       ELSE /\ sreq' = NoReq
            /\ spc' = "idle"
    /\ UNCHANGED <<confVars, active, openfiles, saveresponses, mutex, wake, now,
                   storageVars, appdoc, coordVars, openVars, closed, flushed>>

RaceNext ==
    \/ CoordWake
    \/ SaveDirty
    \/ CloseWhenIdle
    \/ CleanUp
    \/ \E wopisrc \in Served, isclose \in BOOLEAN : SaveTest(wopisrc, isclose)
    \/ SaveReadLastSave
    \/ \E docid \in DocIds : SaveEnqueue(T1, docid)
    \/ SaveReturn
    \/ Tick

SpecRace == InitIdle /\ [][RaceNext]_vars

(* ------------ records that get no further /save and no /open ---------- *)
\* a /save for a document that has no record
FirstSave(wopisrc, isclose) ==
    /\ wopisrc \notin DOMAIN openfiles
    /\ SaveBegin(wopisrc, isclose)

QuietNext ==
    \/ CoordWake
    \/ SaveDirty
    \/ CloseWhenIdle
    \/ CleanUp
    \/ \E wopisrc \in Served, isclose \in BOOLEAN : FirstSave(wopisrc, isclose)
    \/ \E docid \in DocIds : SaveEnqueue(T1, docid)
    \/ SaveReturn
    \/ \E wopisrc \in Served : LockedElsewhere(wopisrc)
    \/ WaitTimesOut
    \/ Tick

\* The save thread is scheduled and its wait(60) times out; the handler that
\* has begun goes on to its end.
SpecQuiet ==
    /\ InitIdle
    /\ [][QuietNext]_vars
    /\ WF_vars(CoordWake) /\ WF_vars(SaveDirty) /\ WF_vars(CloseWhenIdle)
    /\ WF_vars(CleanUp) /\ WF_vars(WaitTimesOut)
    /\ WF_vars(\E docid \in DocIds : SaveEnqueue(T1, docid)) /\ WF_vars(SaveReturn)

(* --------------- savetostorage: bundles and attachments ---------------- *)
\* the names of the stored file: plain markdown, or a bundle
FileNames == {"doc.md", "doc.zmd"}

\* the notes of CodiMD: without pictures, with one, with two
Notes == {"text", "text /uploads/upload_a.png", "text /uploads/upload_a.png /uploads/upload_b.png"}

\* upload_re.findall(mddoc)
UploadRe(mddoc) ==
    CASE mddoc = "text /uploads/upload_a.png" -> {"/uploads/upload_a.png"}
      [] mddoc = "text /uploads/upload_a.png /uploads/upload_b.png" ->
            {"/uploads/upload_a.png", "/uploads/upload_b.png"}
      [] OTHER -> {}

\* attachment.split('/')[-1]
BaseName(attachment) ==
    IF attachment = "/uploads/upload_a.png" THEN "upload_a.png" ELSE "upload_b.png"

\* os.path.splitext(filename)
SplitExt(filename) ==
    IF filename = "doc.zmd" THEN <<"doc", ".zmd">> ELSE <<"doc", ".md">>

\* filename.replace('.zmd', '.md')
AsMarkdownName(filename) == IF filename = "doc.zmd" THEN "doc.md" ELSE filename

\* the bodies of the requests to the storage: a markdown text, or a ZIP
\* archive with its entries
Markdown(mddoc) == [kind |-> "md", text |-> mddoc, entries |-> {}]

Zip(names, mddoc) == [kind |-> "zip", text |-> mddoc, entries |-> names]

\* a variant of _getattachments that takes forcezip as false
GetAttachmentsUnforced(mddoc, docfilename, forcezip, served) ==
    LET fetched == {BaseName(a) : a \in UploadRe(mddoc) \cap served}
    IN  IF fetched = {} THEN None ELSE Zip(fetched \cup {docfilename}, mddoc)

\* _getattachments, lines 196-217: the bundle, or None; served are the
\* attachments that CodiMD answers with 200
GetAttachments(mddoc, docfilename, forcezip, served) ==
    LET fetched == {BaseName(a) : a \in UploadRe(mddoc) \cap served}
    IN  IF ~forcezip /\ fetched = {} THEN None
        ELSE Zip(fetched \cup {docfilename}, mddoc)

\* savetostorage, lines 220-263: the request it sends to the storage, or None
\* when it returns before (lines 226-237)
StorageRequest(isclose, wopilock, mddoc, fetchok, served) ==
    IF ~fetchok THEN None
    ELSE IF isclose /\ wopilock.digest # "dirty" /\ Sha1(mddoc) = wopilock.digest THEN None
    ELSE LET wasbundle == SplitExt(wopilock.filename)[2] = ".zmd"
             bundlefile == GetAttachments(mddoc, AsMarkdownName(wopilock.filename),
                                          wasbundle /\ ~isclose, served)
         IN  IF (wasbundle # (bundlefile = None)) \/ ~isclose
             THEN [op |-> "PutFile", name |-> wopilock.filename,
                   body |-> IF wasbundle THEN bundlefile ELSE Markdown(mddoc)]
             ELSE [op |-> "SaveAs",
                   name |-> SplitExt(wopilock.filename)[1]
                               \o (IF bundlefile # None THEN ".zmd" ELSE ".md"),
                   body |-> IF bundlefile # None THEN bundlefile ELSE Markdown(mddoc)]

\* no call of savetostorage yet, in the history that keeps the requests
NoRequest ==
    [called |-> "never", at |-> 0, isclose |-> FALSE, again |-> FALSE, removed |-> FALSE,
     fetchok |-> FALSE, served |-> {}, request |-> None]

\* T1 has opened the file of S1, markdown or bundle, and edited the note; the
\* digest of the lock is the one of the file, or "dirty" after a save
InitBundles ==
    /\ environ \in ShortEnvirons
    /\ wbattrs = InitIntervals(environ)
    /\ active = TRUE
    /\ saveresponses = EmptyDict
    /\ mutex = "free"
    /\ wake = FALSE
    /\ now = 0
    /\ file = [d \in Docs |-> "c0"]
    /\ cpc = "wait" /\ todo = << >> /\ cwopilock = None /\ cdetached = None
    /\ opc = "idle" /\ oreq = NoReq
    /\ spc = "idle" /\ sreq = NoReq
    /\ closed = [d \in Docs |-> {}]
    /\ \E filename \in FileNames, digest \in {"dirty", "da39", "e3b0"} :
          lock = [d \in Docs |-> IF d = S1
                                 THEN GenerateLock(GenDocId(d), filename, digest, "md", T1, FALSE)
                                 ELSE NoLock]
    /\ openfiles = [d \in {S1} |-> Opened(T1, lock[d], now)]
    /\ \E mddoc \in Notes : appdoc = [d \in Docs |-> IF d = S1 THEN mddoc ELSE "none"]
    /\ flushed = [d \in Docs |-> NoRequest]

\* a call of savetostorage for the note of S1, with the lock of the file
StoreNote ==
    /\ active
    /\ \E isclose \in BOOLEAN, fetchok \in BOOLEAN, served \in SUBSET UploadRe(appdoc[S1]) :
          flushed' = [flushed EXCEPT ![S1] =
                        [called |-> "yes", at |-> now, isclose |-> isclose,
                         again |-> (@.called = "yes"), removed |-> FALSE,
                         fetchok |-> fetchok, served |-> served,
                         request |-> StorageRequest(isclose, lock[S1], appdoc[S1],
                                                    fetchok, served)]]
    /\ UNCHANGED <<confVars, active, openfiles, saveresponses, mutex, wake, now,
                   storageVars, appdoc, coordVars, openVars, saveVars, closed>>

SpecBundles == InitBundles /\ [][StoreNote]_vars

(* ---------------- two documents, saved and never opened ---------------- *)
\* /save requests of one user for both documents, the save thread, the clock
\* and the shutdown
DocsNext ==
    \/ CoordWake
    \/ SaveDirty
    \/ CloseWhenIdle
    \/ CleanUp
    \/ \E wopisrc \in Docs, isclose \in BOOLEAN : SaveBegin(wopisrc, isclose)
    \/ SaveEnqueue(<<"u1", "s1">>, GenDocId(sreq.wopisrc))
    \/ SaveReturn
    \/ StopSaveThread
    \/ TickQuiet

\* The save thread is scheduled, and a wait(60) that may return does; the
\* handler that holds savecv returns.
SpecDocs ==
    /\ Init
    /\ [][DocsNext]_vars
    /\ WF_vars(CoordWake)
    /\ WF_vars(SaveDirty)
    /\ WF_vars(CloseWhenIdle)
    /\ WF_vars(CleanUp)
    /\ WF_vars(SaveReturn)

(* ------------------------------ properties ----------------------------- *)
\* the steps in which a request handler reads or writes WB.openfiles or
\* WB.saveresponses: line 296 of appsave, lines 298-324 of appsave, lines
\* 246-260 of appopen
HandlerAccess ==
    \/ spc = "idle" /\ spc' = "enqueue"
    \/ spc = "enqueue" /\ spc' = "return"
    \/ opc = "upsert" /\ opc' = "idle"

\* C1: the handlers read and write the registry and the save-response map
\* with the mutex held, so that no handler reads or changes either map while
\* the save thread is in the middle of a cycle
C1_HandlersKeepOutOfCycle == [][HandlerAccess => mutex # "SaveThread"]_vars

\* C2: once /save has come with close=true for a token, the close map of the
\* record holds true for that token in every later state, until the record is
\* deleted
C2_CloseSticks ==
    \A d \in Docs : \A t \in closed[d] :
        /\ d \in DOMAIN openfiles
        /\ t \in DOMAIN openfiles[d].toclose
        /\ openfiles[d].toclose[t]

\* C3: tosave is cleared only by a step that has flushed the document: the
\* response stored by that step is the one of a save that succeeded, and a
\* record whose savetostorage failed stays dirty
C3_DirtyUntilFlushed ==
    [][\A d \in DOMAIN openfiles :
         (openfiles[d].tosave /\ d \in DOMAIN openfiles' /\ ~openfiles'[d].tosave)
            => /\ d \in DOMAIN saveresponses'
               /\ saveresponses'[d] \in {SavedOk, Accepted}]_vars

\* C4: the close map of every record of the registry has a token, after
\* every step, the reconciliation with the lock's close map included
C4_CloseMapNotEmpty ==
    \A d \in DOMAIN openfiles : DOMAIN openfiles[d].toclose # {}

\* the save thread has reconciled the close map of a record of two
\* participants, one of which has closed, and has refreshed the lock with it
C4_Witness ==
    \E d \in DOMAIN openfiles :
        /\ cpc = "wait"
        /\ IsBridgeLock(lock[d])
        /\ openfiles[d].toclose = lock[d].toclose
        /\ Cardinality(DOMAIN openfiles[d].toclose) = 2
        /\ \E t \in DOMAIN openfiles[d].toclose : openfiles[d].toclose[t]

\* C5: when every token of the close map of a record is true, tosave is false
\* and lastsave is older than the unlock interval (APP_UNLOCK_INTERVAL, 90 s
\* when it is not set), the cleanup of the save thread's cycle deletes the
\* record
C5_DeletedOnceAllClosed ==
    [][\A d \in DOMAIN openfiles :
         LET interval == IF "APP_UNLOCK_INTERVAL" \in DOMAIN environ
                         THEN environ["APP_UNLOCK_INTERVAL"] ELSE 90
             openfile == openfiles[d]
         IN (/\ cpc = "cleanup" /\ cpc' # "cleanup" /\ Cur = d
             /\ \A t \in DOMAIN openfile.toclose : openfile.toclose[t]
             /\ ~openfile.tosave
             /\ openfile.lastsave + interval < now)
            => d \notin DOMAIN openfiles']_vars

\* C6: the cleanup of the save thread unlocks the file only when every
\* participant is closed in the close map reconciled with the lock's, tosave
\* is false and lastsave is older than the unlock interval; when a
\* participant has closed and another has not, the record and the lock are
\* kept, and the lock is refreshed with the reconciled close map where that
\* differs from the close map of the lock the thread has read
C6_UnlockOnlyOnceAllClosed ==
    [][\A d \in Docs :
         (cpc = "cleanup" /\ cpc' # "cleanup" /\ Cur = d /\ IsBridgeLock(lock[d])) =>
           LET openfile == IF cdetached # None THEN cdetached ELSE openfiles[d]
               wopilock == IF cwopilock # None THEN cwopilock ELSE lock[d]
               isclosed == [t \in DOMAIN wopilock.toclose |->
                              \/ wopilock.toclose[t]
                              \/ t \in DOMAIN openfile.toclose /\ openfile.toclose[t]]
               allclosed == \A t \in DOMAIN isclosed : isclosed[t]
               oneclosed == \E t \in DOMAIN openfile.toclose : openfile.toclose[t]
           IN /\ lock'[d] = NoLock =>
                   /\ allclosed
                   /\ ~openfile.tosave
                   /\ HasUnlockInterval
                   /\ openfile.lastsave < now - unlockinterval
              /\ (oneclosed /\ ~allclosed /\ ~openfile.tosave) =>
                   /\ IsBridgeLock(lock'[d])
                   /\ isclosed # wopilock.toclose => lock'[d].toclose = isclosed
                   /\ cdetached = None => (d \in DOMAIN openfiles'
                                           /\ openfiles'[d].toclose = isclosed)]_vars

\* the cleanup is about to unlock a file of two participants that have both
\* closed, after the grace period
C6_Witness ==
    /\ cpc = "cleanup"
    /\ Cur \in DOMAIN openfiles
    /\ cwopilock = None
    /\ IsBridgeLock(lock[Cur])
    /\ DOMAIN lock[Cur].toclose = DOMAIN openfiles[Cur].toclose
    /\ Cardinality(DOMAIN openfiles[Cur].toclose) = 2
    /\ \A t \in DOMAIN openfiles[Cur].toclose : openfiles[Cur].toclose[t]
    /\ ~openfiles[Cur].tosave
    /\ HasUnlockInterval
    /\ openfiles[Cur].lastsave < now - unlockinterval

\* C7: a savedirty that is due and finds the file locked by something else
\* than the bridge (getlock and the one relock raise InvalidLock) parks a
\* response of status 500, clears tosave, sets the close map to
\* {"invalid-lock": true} and leaves the storage and the note alone; when the
\* file is not locked the one relock takes the lock for the record's token
C7_RelockFailureParked ==
    [][\A d \in Docs :
         (/\ cpc = "savedirty" /\ cpc' # "savedirty" /\ Cur = d
          /\ openfiles[d].tosave
          /\ DOMAIN openfiles[d].toclose # {}
          /\ \/ \A t \in DOMAIN openfiles[d].toclose : openfiles[d].toclose[t]
             \/ openfiles[d].lastsave <= now - saveinterval
          /\ ~IsBridgeLock(lock[d]))
         => IF lock[d] = NoLock
            THEN /\ IsBridgeLock(lock'[d])
                 /\ DOMAIN lock'[d].toclose = {ShortTok(openfiles[d].acctok)}
            ELSE /\ d \in DOMAIN saveresponses'
                 /\ saveresponses'[d][2] = 500
                 /\ saveresponses'[d] \notin {FetchFailed, PutFileFailed}
                 /\ ~openfiles'[d].tosave
                 /\ openfiles'[d].toclose = [t \in {"invalid-lock"} |-> TRUE]
                 /\ UNCHANGED <<lock, file, appdoc>>]_vars

\* the relock has failed for a record: the response is parked and the record
\* carries the sentinel
C7_Witness ==
    \E d \in DOMAIN openfiles :
        /\ d \in DOMAIN saveresponses
        /\ saveresponses[d] = RelockFailed
        /\ openfiles[d].toclose = InvalidLockSentinel
        /\ ~openfiles[d].tosave
        /\ lock[d] = ForeignLock
        /\ file[d] = "c0"

\* the step of /save that returns the response stored for wopisrc
ReturnedBySave(d) ==
    /\ spc = "enqueue" /\ spc' = "return"
    /\ sreq.wopisrc = d
    /\ sreq'.resp = saveresponses[d]

\* C8, as stated: the failure that savetostorage has returned stays in the
\* save-response map until the next /save of the document returns it,
\* whatever else happens meanwhile, and the save thread ends on shutdown only
C8_FailureReachesNextSave ==
    [][/\ \A d \in DOMAIN saveresponses :
            saveresponses[d] \in {FetchFailed, PutFileFailed} =>
               \/ d \in DOMAIN saveresponses' /\ saveresponses'[d] = saveresponses[d]
               \/ ReturnedBySave(d)
       /\ cpc' = "terminated" => ~active]_vars

\* C8, amended: the failure that savetostorage has returned stays in the
\* save-response map until the next /save of the document returns it, unless
\* an /open of the document comes first, or the record of the document is
\* deleted and then a /save repopulates it: both discard the stored response.
\* The save thread ends on shutdown only.
C8_FailureReachesNextSaveUnlessDiscarded ==
    [][/\ \A d \in DOMAIN saveresponses :
            saveresponses[d] \in {FetchFailed, PutFileFailed} =>
               \/ d \in DOMAIN saveresponses' /\ saveresponses'[d] = saveresponses[d]
               \/ ReturnedBySave(d) /\ d \in DOMAIN openfiles
               \/ /\ opc = "upsert" /\ opc' = "idle" /\ oreq.wopisrc = d
                  /\ d \notin DOMAIN saveresponses'
               \/ /\ spc = "enqueue" /\ spc' = "return" /\ sreq.wopisrc = d
                  /\ d \notin DOMAIN openfiles
                  /\ d \notin DOMAIN saveresponses'
       /\ cpc' = "terminated" => ~active]_vars

\* /save has returned the failure of savetostorage, and the save thread is
\* waiting for its next cycle
C8_Witness ==
    /\ spc = "return"
    /\ sreq.resp \in {FetchFailed, PutFileFailed}
    /\ cpc = "wait"
    /\ active

C10_RecordOnlyWithLock ==
    [][(/\ opc = "upsert" /\ opc' = "idle"
        /\ oreq.wopisrc \notin DOMAIN openfiles
        /\ oreq.wopisrc \in DOMAIN openfiles')
       => oreq.UserCanWrite]_vars

\* the unlock interval of the configuration: APP_UNLOCK_INTERVAL, 90 s when
\* it is not set
ConfiguredUnlockInterval ==
    IF "APP_UNLOCK_INTERVAL" \in DOMAIN environ THEN environ["APP_UNLOCK_INTERVAL"] ELSE 90

\* a step of the save thread on document d
SaveThreadStep(d) ==
    /\ cpc \in {"savedirty", "closewhenidle", "cleanup"}
    /\ cpc' # cpc
    /\ Cur = d

\* C11: a record leaves the registry in a step of the save thread
\* only, and only when that step has unlocked the file, or has found the file
\* without a lock of the bridge while lastsave is older than the unlock
\* interval
C11_DeletedAfterUnlockOrStaleLock ==
    [][\A d \in DOMAIN openfiles :
         d \notin DOMAIN openfiles' =>
            /\ SaveThreadStep(d)
            /\ \/ IsBridgeLock(lock[d]) /\ lock'[d] = NoLock
               \/ /\ ~IsBridgeLock(lock[d])
                  /\ openfiles[d].lastsave <= now - ConfiguredUnlockInterval]_vars

\* C12: lastsave of a record never decreases while the record is in the
\* registry
C12_LastSaveMonotonic ==
    [][\A d \in DOMAIN openfiles :
         d \in DOMAIN openfiles' => openfiles'[d].lastsave >= openfiles[d].lastsave]_vars

\* a record that was opened at 0 has been saved at a later time
C12_Witness ==
    \E d \in DOMAIN openfiles :
        /\ openfiles[d].lastsave = now
        /\ now > 0
        /\ ~openfiles[d].tosave
        /\ d \in DOMAIN saveresponses
        /\ saveresponses[d] = SavedOk

\* C14: the save rounds of a document are one after the other: the save
\* thread passes a document once in a cycle, and runs its phases, the
\* savetostorage of savedirty among them, only while it holds savecv, on the
\* one document at the head of what is left of the cycle
C14_OneSaveRoundAtATime ==
    /\ \A i, j \in DOMAIN todo : i # j => todo[i] # todo[j]
    /\ cpc \in {"savedirty", "closewhenidle", "cleanup"} =>
          /\ mutex = "SaveThread"
          /\ todo # << >>
          /\ spc # "return"
    /\ cpc \in {"wait", "terminated"} => todo = << >> \/ mutex # "SaveThread"

\* the save thread is saving the second of two dirty documents of a cycle
C14_Witness ==
    /\ cpc = "closewhenidle"
    /\ DOMAIN openfiles = Docs
    /\ Len(todo) = 1
    /\ \A d \in Docs : ~openfiles[d].tosave /\ d \in DOMAIN saveresponses

\* C15: an exception raised by the cleanup of a document (AttributeError of
\* WB.unlockinterval) ends the iteration of that document only: the save
\* thread goes on with the next document of the cycle, or waits for the next
\* cycle when there is none, and does not terminate
C15_ExceptionEndsIterationOnly ==
    [][(/\ cpc = "cleanup" /\ cpc' # "cleanup"
        /\ ~HasUnlockInterval
        /\ LET openfile == IF cdetached # None THEN cdetached ELSE openfiles[Cur]
               wopilock == IF cwopilock # None THEN cwopilock ELSE lock[Cur]
           IN /\ ~openfile.tosave
              /\ \E t \in DOMAIN openfile.toclose : openfile.toclose[t]
              /\ IsBridgeLock(wopilock) =>
                    \A t \in DOMAIN wopilock.toclose :
                       \/ wopilock.toclose[t]
                       \/ t \in DOMAIN openfile.toclose /\ openfile.toclose[t])
       => /\ todo' = Tail(todo)
          /\ IF Tail(todo) = << >>
             THEN cpc' = "wait" /\ mutex' = "free"
             ELSE cpc' = "savedirty" /\ mutex' = "SaveThread"]_vars

\* the cleanup of the first of two documents has raised, and the save thread
\* is at the second
C15_Witness ==
    /\ ~HasUnlockInterval
    /\ cpc = "savedirty"
    /\ Len(todo) = 1
    /\ \E d \in DOMAIN openfiles :
          /\ d # Cur
          /\ ~openfiles[d].tosave
          /\ \A t \in DOMAIN openfiles[d].toclose : openfiles[d].toclose[t]
          /\ IsBridgeLock(lock[d])
          /\ \A t \in DOMAIN lock[d].toclose : lock[d].toclose[t]
          /\ openfiles[d].lastsave = now

\* C16: once stopsavethread has set WB.active to false, the save thread
\* terminates: it does not start a cycle any more, and the saves that are
\* pending stay so
C16_TerminatesAfterShutdown ==
    /\ (~active) ~> (cpc = "terminated")
    /\ [][(~active /\ cpc = "wait") => cpc' \in {"wait", "terminated"}]_vars
    /\ [][cpc = "terminated" => cpc' = "terminated" /\ file' = file /\ lock' = lock]_vars

\* the save thread has terminated with a save pending
C16_Witness ==
    /\ cpc = "terminated"
    /\ ~active
    /\ \E d \in DOMAIN openfiles : openfiles[d].tosave

\* C18: the save interval is APP_SAVE_INTERVAL, or 200 when it is not set, and
\* the unlock interval is APP_UNLOCK_INTERVAL, or 90 when it is not set; the
\* two are set independently and both are defined in every configuration
C18_BothIntervalsConfigured ==
    /\ DOMAIN wbattrs = {"saveinterval", "unlockinterval"}
    /\ saveinterval = IF "APP_SAVE_INTERVAL" \in DOMAIN environ
                      THEN environ["APP_SAVE_INTERVAL"] ELSE 200
    /\ unlockinterval = ConfiguredUnlockInterval

\* a step of savedirty that calls savetostorage for document d
SaveToStorageCalled(d) ==
    /\ cpc = "savedirty"
    /\ cpc' = "closewhenidle"
    /\ Cur = d
    /\ openfiles[d].tosave
    /\ ~openfiles'[d].tosave
    /\ saveresponses'[d] # RelockFailed

\* C19 as it is stated: savetostorage is called for a record only if tosave
\* is true and either all its participants have closed or lastsave is
\* saveinterval in the past; isclose is passed as true only when all the
\* participants have closed; and two consecutive calls for a document, the
\* later one for a document that is not closed by all, are at least
\* saveinterval apart
C19_SavesSpacedForDocument ==
    [][\A d \in Served :
         SaveToStorageCalled(d) =>
            LET openfile == openfiles[d]
                allclosed == \A t \in DOMAIN openfile.toclose : openfile.toclose[t]
            IN /\ openfile.tosave
               /\ allclosed \/ openfile.lastsave <= now - saveinterval
               /\ flushed'[d].isclose = allclosed
               /\ (~allclosed /\ flushed[d] # Never) => flushed[d].at <= now - saveinterval]_vars

\* C19, with the distance of two calls stated for one record: the later call
\* is at least saveinterval after the earlier one when the record that was
\* saved has been in the registry ever since
C19_SavesSpacedForRecord ==
    [][\A d \in Served :
         SaveToStorageCalled(d) =>
            LET openfile == openfiles[d]
                allclosed == \A t \in DOMAIN openfile.toclose : openfile.toclose[t]
            IN /\ openfile.tosave
               /\ allclosed \/ openfile.lastsave <= now - saveinterval
               /\ flushed'[d].isclose = allclosed
               /\ (~allclosed /\ flushed[d] # Never /\ ~flushed[d].removed)
                     => flushed[d].at <= now - saveinterval]_vars

\* a second call of savetostorage for a record that is not closed by all, one
\* save interval after the first
C19_Witness ==
    \E d \in Served :
       /\ cpc = "closewhenidle" /\ Cur = d
       /\ flushed[d].again /\ flushed[d].at = now /\ ~flushed[d].isclose
       /\ d \in DOMAIN openfiles /\ openfiles[d].lastsave = now
       /\ \E t \in DOMAIN openfiles[d].toclose : ~openfiles[d].toclose[t]

\* C20: for a record whose lastsave is more than 4 x saveinterval in the past
\* and whose lock is valid, closewhenidle sets every entry of toclose to
\* true, and the cleanup that follows unlocks the file and deletes the record
C20_IdleRecordUnlockedAndDeleted ==
    [][\A d \in Served :
         LET idle == /\ Cur = d
                     /\ d \in DOMAIN openfiles
                     /\ openfiles[d].lastsave < now - 4 * saveinterval
         IN /\ (/\ cpc = "closewhenidle" /\ cpc' # cpc
                /\ idle
                /\ IsBridgeLock(IF cwopilock # None THEN cwopilock ELSE lock[d]))
               => /\ d \in DOMAIN openfiles'
                  /\ \A t \in DOMAIN openfiles'[d].toclose : openfiles'[d].toclose[t]
            /\ (/\ cpc = "cleanup" /\ cpc' # cpc
                /\ idle
                /\ IsBridgeLock(cwopilock) /\ lock[d] = cwopilock
                /\ \A t \in DOMAIN openfiles[d].toclose : openfiles[d].toclose[t])
               => /\ d \notin DOMAIN openfiles'
                  /\ lock'[d] \in {NoLock, lock[d]}]_vars

\* C17: savetostorage, once it has fetched the document, answers ({}, 202)
\* exactly when isclose is true, the digest of the lock is not "dirty" and
\* the SHA-1 of the document equals that digest, and then it leaves the file
\* and the lock as they are; so the close of a document that was loaded and
\* not edited puts no file
C17_UnchangedSkipsSave ==
    [][\A d \in Served :
         SaveToStorageCalled(d) =>
            LET openfile == openfiles[d]
                isclose == \A t \in DOMAIN openfile.toclose : openfile.toclose[t]
                wopilock == cwopilock'
                unchanged == /\ isclose
                             /\ wopilock.digest # "dirty"
                             /\ Sha1(appdoc[d]) = wopilock.digest
                resp == saveresponses'[d]
            IN /\ resp # FetchFailed => (resp = Accepted <=> unchanged)
               /\ resp = Accepted => file' = file /\ lock' = lock
               /\ (isclose /\ wopilock.digest = Sha1(file[d]) /\ appdoc[d] = file[d])
                     => file' = file /\ resp \in {Accepted, FetchFailed}]_vars

\* the close of a document that was loaded and not edited has been answered
\* with 202, while the document had been saved before with other content
C17_Witness ==
    \E d \in Served :
       /\ cpc = "closewhenidle" /\ Cur = d
       /\ d \in DOMAIN saveresponses /\ saveresponses[d] = Accepted
       /\ IsBridgeLock(lock[d]) /\ lock[d].digest = Sha1("c1")
       /\ file[d] = "c1" /\ appdoc[d] = "c1"

\* C13: in the session S1 of one user (/open, an edit, one /save with
\* close=true, no request afterwards) the save thread saves the document,
\* and once the unlock interval has passed since the save it removes the
\* record: the registry ends empty, and the storage has got one PutFile, with
\* the content of the document
C13_SessionEndsClean ==
    /\ (/\ S1 \in DOMAIN openfiles
        /\ flushed[S1].called = "yes"
        /\ openfiles[S1].lastsave + ConfiguredUnlockInterval < now)
          ~> (openfiles = EmptyDict /\ file[S1] = appdoc[S1])
    /\ [](~flushed[S1].again)
    /\ [][file'[S1] # file[S1] => file'[S1] = appdoc[S1] /\ flushed[S1] = Never]_vars

\* C21: once closewhenidle has deleted the record of a document for an
\* invalid lock, the cleanup of the same iteration has nothing to do with it:
\* the condition of line 427 is false, so that neither the getlock of line 430
\* nor the del of line 436 is reached, and the registry is left as it is
C21_DeletedRecordLeftAlone ==
    [][(/\ cpc = "cleanup" /\ cpc' # cpc
        /\ cdetached # None)
       => /\ ~(Union(cdetached.toclose) /\ ~cdetached.tosave)
          /\ openfiles' = openfiles]_vars

\* C22: an exception that savedirty raises for a document (the plugin of the
\* application of the lock is not loaded) is caught in savedirty: the save
\* thread goes on with closewhenidle for the same document
C22_PhasesCatchTheirOwn ==
    [][(/\ cpc = "savedirty" /\ cpc' # cpc
        /\ openfiles[Cur].tosave
        /\ \/ \A t \in DOMAIN openfiles[Cur].toclose : openfiles[Cur].toclose[t]
           \/ openfiles[Cur].lastsave <= now - saveinterval
        /\ IsBridgeLock(lock[Cur])
        /\ lock[Cur].app = "epd")
       => /\ cpc' = "closewhenidle"
          /\ todo' = todo]_vars

\* C23: after cleanup has reconciled a record with a valid lock, the keys of
\* the record's toclose are those of the lock's toclose, and for each key the
\* value is the lock's value or the record's (false for a key the record did
\* not hold): what is true in the lock stays true
C23_ReconciledWithLock ==
    [][\A d \in Served :
         (/\ cpc = "cleanup" /\ cpc' # cpc
          /\ Cur = d
          /\ cdetached = None
          /\ d \in DOMAIN openfiles'
          /\ ~openfiles[d].tosave
          /\ \E t \in DOMAIN openfiles[d].toclose : openfiles[d].toclose[t]
          /\ IsBridgeLock(IF cwopilock # None THEN cwopilock ELSE lock[d]))
         => LET wopilock == IF cwopilock # None THEN cwopilock ELSE lock[d]
                before == openfiles[d].toclose
                after == openfiles'[d].toclose
            IN /\ DOMAIN after = DOMAIN wopilock.toclose
               /\ \A t \in DOMAIN after :
                     /\ after[t] <=> (wopilock.toclose[t] \/ (t \in DOMAIN before /\ before[t]))
                     /\ wopilock.toclose[t] => after[t]]_vars

\* cleanup has reconciled a record with the lock: the record holds as closed
\* a participant who has not closed since the record was created (the lock
\* says so), and it has not been idle, so that closewhenidle has not closed it
C23_Witness ==
    \E d \in Served :
       /\ d \in DOMAIN openfiles
       /\ IsBridgeLock(lock[d])
       /\ DOMAIN openfiles[d].toclose = DOMAIN lock[d].toclose
       /\ openfiles[d].lastsave >= now - 4 * saveinterval
       /\ \E t \in DOMAIN openfiles[d].toclose :
             /\ openfiles[d].toclose[t]
             /\ lock[d].toclose[t]
             /\ t \notin closed[d]

\* /open with write permission that finds a bridge lock on the file: no
\* loadfromstorage and no Lock, and a refresh of the lock exactly when the
\* short token of the opener is not in the lock's toclose, which adds it as
\* false
OpenJoins ==
    /\ \A w \in Served :
         (opc = "idle" /\ opc' # opc /\ oreq'.wopisrc = w /\ IsBridgeLock(lock[w]))
            => /\ opc' \in {"refreshlock", "upsert"}
               /\ opc' = "refreshlock" <=> ShortTok(oreq'.acctok) \notin DOMAIN lock[w].toclose
               /\ oreq'.wopilock = lock[w]
               /\ lock' = lock /\ appdoc' = appdoc /\ file' = file
    /\ (opc = "refreshlock" /\ opc' # opc)
            => /\ opc' = "upsert"
               /\ appdoc' = appdoc /\ file' = file
               /\ DOMAIN oreq'.wopilock.toclose =
                     DOMAIN oreq.wopilock.toclose \cup {ShortTok(oreq.acctok)}
               /\ ~oreq'.wopilock.toclose[ShortTok(oreq.acctok)]
               /\ \A t \in DOMAIN oreq.wopilock.toclose :
                     oreq'.wopilock.toclose[t] = oreq.wopilock.toclose[t]
               /\ IsBridgeLock(lock[oreq.wopisrc]) => lock'[oreq.wopisrc] = oreq'.wopilock

\* C24: /open with write permission that finds a bridge lock joins the
\* session (OpenJoins), and afterwards the record's toclose holds every
\* participant of the lock as /open has read or refreshed it, so the opener
\* that the refresh has added is there as false
C24_JoinHoldsAllParticipants ==
    [][/\ OpenJoins
       /\ (opc = "upsert" /\ opc' # opc /\ oreq.UserCanWrite)
             => LET after == openfiles'[oreq.wopisrc].toclose
                IN \A t \in DOMAIN oreq.wopilock.toclose :
                      /\ t \in DOMAIN after
                      /\ after[t] = oreq.wopilock.toclose[t]]_vars

\* C24, with the record as the code leaves it: a record that exists takes the
\* lock's toclose as it is (the opener is false when this /open has added it
\* to the lock, and keeps the value of the lock otherwise); a record that is
\* created holds the opener only, as false
C24_JoinTakesLockMap ==
    [][/\ OpenJoins
       /\ (opc = "upsert" /\ opc' # opc /\ oreq.UserCanWrite)
             => LET after == openfiles'[oreq.wopisrc].toclose
                IN IF oreq.wopisrc \in DOMAIN openfiles
                   THEN after = oreq.wopilock.toclose
                   ELSE after = [t \in {ShortTok(oreq.acctok)} |-> FALSE]]_vars

\* B has opened the document that A has open: both are in the close map of
\* the record and in that of the lock, as false
C24_Witness ==
    \E d \in Served :
       /\ opc = "idle"
       /\ d \in DOMAIN openfiles
       /\ openfiles[d].acctok = <<"u2", "s2">>
       /\ openfiles[d].toclose = [t \in {"s1", "s2"} |-> FALSE]
       /\ IsBridgeLock(lock[d])
       /\ lock[d].toclose = openfiles[d].toclose
       /\ lock[d].digest = Sha1(file[d])

\* C25: /open on a document that has a record replaces acctok and toclose
\* only: tosave, lastsave and docid are as before, so a pending save is not
\* lost, and no step changes the docid of a record that stays in the registry
C25_OpenKeepsPendingSave ==
    [][/\ (opc = "upsert" /\ opc' # opc /\ oreq.wopisrc \in DOMAIN openfiles)
             => LET before == openfiles[oreq.wopisrc]
                    after == openfiles'[oreq.wopisrc]
                IN /\ after.tosave = before.tosave
                   /\ after.lastsave = before.lastsave
                   /\ after.docid = before.docid
                   /\ after.acctok = oreq.acctok
                   /\ DOMAIN after = DOMAIN before
       /\ \A d \in DOMAIN openfiles \cap DOMAIN openfiles' :
             openfiles'[d].docid = openfiles[d].docid]_vars

\* the second user has opened the document while a save of the first one is
\* pending: the record is still dirty, and it has the note id of that save,
\* which is not the one of the lock
C25_Witness ==
    \E d \in Served :
       /\ opc = "idle"
       /\ d \in DOMAIN openfiles
       /\ openfiles[d].acctok = <<"u2", "s2">>
       /\ DOMAIN openfiles[d].toclose = {"s1", "s2"}
       /\ openfiles[d].tosave
       /\ d \notin DOMAIN saveresponses
       /\ "s2" \notin closed[d]
       /\ spc = "idle"
       /\ IsBridgeLock(lock[d])
       /\ openfiles[d].docid # lock[d].docid

\* C26: a record that the failed relock has tagged with {'invalid-lock': True}
\* is dropped by the cleanup of the first pass of the save thread that comes
\* after lastsave + unlock interval, when no /save has come for it since and
\* the lock is still invalid
C26_TaggedRecordDropped ==
    [][\A d \in Served :
         (/\ cpc = "cleanup" /\ cpc' # cpc
          /\ Cur = d
          /\ cdetached = None
          /\ d \in DOMAIN openfiles
          /\ openfiles[d].toclose = InvalidLockSentinel
          /\ ~openfiles[d].tosave
          /\ ~IsBridgeLock(lock[d])
          /\ openfiles[d].lastsave + ConfiguredUnlockInterval < now)
            => d \notin DOMAIN openfiles']_vars

\* C27: savetostorage, when it gets to the storage, sends the in-place
\* PutFile exactly when (wasbundle XOR NOT hasAttachments) or NOT isclose,
\* and saveas otherwise, hasAttachments being that a bundle was produced;
\* the body of PutFile is the ZIP bundle when the name of the stored file
\* ends with .zmd and the markdown text otherwise, and it is never absent
C27_PutFileOrSaveAs ==
    \A d \in {S1} :
       LET call == flushed[d]
           wasbundle == lock[d].filename = "doc.zmd"
           fetched == {BaseName(a) : a \in call.served}
           hasAttachments == fetched # {} \/ (wasbundle /\ ~call.isclose)
       IN (call.called = "yes" /\ call.request # None)
             => /\ call.request.op \in {"PutFile", "SaveAs"}
                /\ call.request.op = "PutFile"
                      <=> ((wasbundle /\ hasAttachments) \/ (~wasbundle /\ ~hasAttachments)
                           \/ ~call.isclose)
                /\ call.request.op = "PutFile"
                      => /\ call.request.name = lock[d].filename
                         /\ call.request.body # None
                         /\ call.request.body.kind = (IF wasbundle THEN "zip" ELSE "md")
                         /\ call.request.body.text = appdoc[d]
                         /\ wasbundle =>
                               call.request.body.entries = fetched \cup {"doc.md"}
                /\ call.request.op = "SaveAs"
                      => /\ call.request.name = (IF wasbundle THEN "doc.md" ELSE "doc.zmd")
                         /\ call.request.body.kind = (IF wasbundle THEN "md" ELSE "zip")
                         /\ call.request.body.text = appdoc[d]

\* the bundle whose note has lost its pictures is saved in place, as a ZIP
\* archive that holds the note only, while the document is open
C27_Witness ==
    /\ flushed[S1].called = "yes"
    /\ ~flushed[S1].isclose
    /\ lock[S1].filename = "doc.zmd"
    /\ flushed[S1].request # None
    /\ flushed[S1].request.op = "PutFile"
    /\ flushed[S1].request.body = Zip({"doc.md"}, appdoc[S1])

\* C28: the cleanup that comes in the iteration in which savetostorage was
\* called for the document (at the present time of the clock, that is) sends
\* no Unlock: the record stays, and so does the lock of the file
C28_NoUnlockAfterSave ==
    [][\A d \in Served :
         (/\ cpc = "cleanup" /\ cpc' # cpc
          /\ Cur = d
          /\ d \in DOMAIN openfiles
          /\ cwopilock # None
          /\ flushed[d].called = "yes" /\ ~flushed[d].removed
          /\ flushed[d].at = now)
            => /\ d \in DOMAIN openfiles'
               /\ openfiles'[d].lastsave = now
               /\ lock'[d] # NoLock \/ lock[d] = NoLock]_vars

\* savetostorage has been called with isclose for the document of the
\* iteration, lastsave is the present time, and cleanup is next
C28_Witness ==
    \E d \in Served :
       /\ cpc = "cleanup"
       /\ Cur = d
       /\ d \in DOMAIN openfiles
       /\ cwopilock # None
       /\ flushed[d].called = "yes" /\ ~flushed[d].removed
       /\ flushed[d].at = now
       /\ flushed[d].isclose
       /\ \A t \in DOMAIN openfiles[d].toclose : openfiles[d].toclose[t]
       /\ ~openfiles[d].tosave
       /\ HasUnlockInterval
       /\ d \in DOMAIN saveresponses /\ saveresponses[d] = SavedOk
       /\ lock[d] # cwopilock

\* C29: a /save of T1 that is well formed does not fail and does not lose its
\* signal: once line 296 has begun, the handler gets to the with block, and
\* when the with block is done the registry has the record of the document
\* with tosave = true and toclose[s1] = isclose
C29_SaveSignalKept ==
    [][/\ (spc = "lastsave" /\ spc' # spc) => spc' = "enqueue"
       /\ (spc = "enqueue" /\ spc' # spc)
             => /\ spc' = "return"
                /\ sreq.wopisrc \in DOMAIN openfiles'
                /\ openfiles'[sreq.wopisrc].tosave
                /\ ShortTok(T1) \in DOMAIN openfiles'[sreq.wopisrc].toclose
                /\ openfiles'[sreq.wopisrc].toclose[ShortTok(T1)] = sreq.isclose]_vars

\* C30: no record stays in the registry for ever when no /open and no /save
\* comes for it: whatever its state, the save thread removes it in the end,
\* or at least it is not left there with its last save older than the unlock
\* interval
C30_NoRecordForEver ==
    \A d \in Served :
       (d \in DOMAIN openfiles)
          ~> (\/ d \notin DOMAIN openfiles
              \/ openfiles[d].lastsave + ConfiguredUnlockInterval >= now)

====
